---- MODULE Spec2Model ----
(***************************************************************************)
(* Environment wrappers of skrl: the torch wrappers (Isaac Gym preview 2   *)
(* and 3, OpenAI Gym, DeepMind), the selector wrap_env, and the jax        *)
(* PettingZoo (parallel, multi-agent) wrapper.                             *)
(*                                                                         *)
(* Tensors and arrays are records [dtype, shape, data] with data the       *)
(* row-major sequence of the elements; a call that raises is a record      *)
(* with ok = FALSE and the exception's name in err.                        *)
(***************************************************************************)
EXTENDS Integers, Sequences, FiniteSets, TLC

VARIABLES
    \* ---- Isaac Gym wrappers (IsaacGymPreview2Wrapper / IsaacGymPreview3Wrapper)
    ig_variant,      \* which of the two classes the wrapper is
    ig_env,          \* the backend: its num_envs and the shape of its buffers
    reset_once,      \* self._reset_once
    obs_buf,         \* self._obs_buf (preview 2) / self._obs_dict (preview 3)
    env_resets,      \* number of calls of the backend's native reset
    ig_history,      \* the calls made on the wrapper and what each returned
    \* ---- selector
    sel_env,         \* the environment handed to wrap_env
    sel_wrapper,     \* the wrapper argument
    sel_result,      \* what wrap_env returned or raised
    \* ---- codec
    cd_codec,        \* which class's _observation_to_tensor / _tensor_to_action
    cd_num_envs,     \* self.num_envs of that wrapper
    cd_space,        \* the space argument
    cd_value,        \* the observation argument
    cd_encoded,      \* result of _observation_to_tensor
    cd_decoded,      \* result of _tensor_to_action on the encoded tensor
    \* ---- GymWrapper over a backend
    gym_env,         \* the wrapped backend: num_envs, observation and action space
    gym_last,        \* the last call and its result
    \* ---- PettingZooWrapper over a parallel backend
    pz_env,          \* the backend: possible agents, observation spaces, active agents
    pz_wrapper,      \* the wrapper's own fields (possible_agents, shared space)
    pz_last          \* the last call and its result

igVars  == <<ig_variant, ig_env, reset_once, obs_buf, env_resets, ig_history>>
selVars == <<sel_env, sel_wrapper, sel_result>>
cdVars  == <<cd_codec, cd_num_envs, cd_space, cd_value, cd_encoded, cd_decoded>>
gymVars == <<gym_env, gym_last>>
pzVars  == <<pz_env, pz_wrapper, pz_last>>
vars    == <<igVars, selVars, cdVars, gymVars, pzVars>>

(***************************************************************************)
(* Bounds of the model.                                                    *)
(***************************************************************************)
MaxCalls == 4        \* calls made on one wrapper
MaxObs == 2          \* backend observation buffers are 0..MaxObs
MaxNumEnvs == 4      \* num_envs of a backend is 1..MaxNumEnvs
MaxCloses == 2       \* close() calls made on one wrapper

(***************************************************************************)
(* Shapes, reshape/view with one inferred (-1) dimension.                  *)
(***************************************************************************)
RECURSIVE ShapeProd(_)
ShapeProd(s) == IF s = <<>> THEN 1 ELSE Head(s) * ShapeProd(Tail(s))

Err(name) == [ok |-> FALSE, err |-> name, dtype |-> "", shape |-> <<>>, data |-> <<>>]
Tensor(dtype, shape, data) ==
    [ok |-> TRUE, err |-> "", dtype |-> dtype, shape |-> shape, data |-> data]

\* torch.Tensor.view(k, -1) / numpy.ndarray.reshape(k, -1) on `size` elements:
\* the shape (k, size / k), or <<>> when k does not divide size
ViewRows(size, k) ==
    IF k > 0 /\ size > 0 /\ size % k = 0 THEN <<k, size \div k>> ELSE <<>>

\* x.view(-1, 1): one column, as many rows as there are elements
ViewColumn(shape) == <<ShapeProd(shape), 1>>

(***************************************************************************)
(* Isaac Gym wrappers: IsaacGymPreview2Wrapper keeps the observation       *)
(* tensor in self._obs_buf, IsaacGymPreview3Wrapper keeps the backend's    *)
(* dictionary in self._obs_dict and returns its "obs" entry.               *)
(***************************************************************************)
IsaacVariants == {"preview2", "preview3"}
ObsVals == 0..MaxObs
\* a backend has num_envs environments and hands out its reward and reset
\* buffers flat, (num_envs,), or as a column, (num_envs, 1)
IsaacEnvs == [num_envs : 1..MaxNumEnvs, column : BOOLEAN]
BufShape(env) == IF env.column THEN <<env.num_envs, 1>> ELSE <<env.num_envs>>

NoneBuf == [kind |-> "None", obs |-> 0]
\* what the backend's reset()/step() hand out as observation: a tensor
\* (preview 2) or a dictionary with the tensor under "obs" (preview 3)
NativeObs(variant, v) ==
    IF variant = "preview2" THEN [kind |-> "tensor", obs |-> v]
                            ELSE [kind |-> "dict", obs |-> v]
\* what the wrapper returns from its buffer: self._obs_buf, self._obs_dict["obs"]
BufObs(buf) == buf.obs

IsaacInit ==
    /\ ig_variant \in IsaacVariants
    /\ ig_env \in IsaacEnvs
    /\ reset_once = TRUE
    /\ obs_buf = NoneBuf
    /\ env_resets = 0
    /\ ig_history = <<>>

\* `if self._reset_once:` the guard of the backend's native reset
CallsNativeResetAlways(once) == TRUE
CallsNativeReset(once) == once

\* the buffer after step(): `self._obs_buf, ... = self._env.step(actions)`
StepBufKept(buf, stepped) == buf
StepBuf(buf, stepped) == stepped

IsaacReset ==
    /\ Len(ig_history) < MaxCalls
    /\ IF CallsNativeReset(reset_once)
         THEN \E v \in ObsVals :
                /\ obs_buf' = NativeObs(ig_variant, v)
                /\ env_resets' = env_resets + 1
                /\ reset_once' = FALSE
         ELSE UNCHANGED <<obs_buf, env_resets, reset_once>>
    /\ ig_history' = Append(ig_history,
                        [op |-> "reset", obs |-> BufObs(obs_buf'),
                         rew |-> <<>>, done |-> <<>>,
                         native |-> CallsNativeReset(reset_once)])
    /\ UNCHANGED <<ig_variant, ig_env>>

IsaacStep ==
    /\ Len(ig_history) < MaxCalls
    /\ \E v \in ObsVals :
          /\ obs_buf' = StepBuf(obs_buf, NativeObs(ig_variant, v))
          /\ ig_history' = Append(ig_history,
                              [op |-> "step", obs |-> v,
                               rew |-> ViewColumn(BufShape(ig_env)),
                               done |-> ViewColumn(BufShape(ig_env)),
                               native |-> FALSE])
    /\ UNCHANGED <<ig_variant, ig_env, reset_once, env_resets>>

IsaacIdle ==
    /\ ig_variant = "preview2"
    /\ ig_env = [num_envs |-> 1, column |-> FALSE]
    /\ reset_once = TRUE
    /\ obs_buf = NoneBuf
    /\ env_resets = 0
    /\ ig_history = <<>>

(***************************************************************************)
(* DeepMindWrapper.__init__: the observation and the action spec of the    *)
(* backend are converted to spaces by _spec_to_space.  A spec is a record  *)
(* [kind, fields]: fields are the kinds of the entries of an OrderedDict.  *)
(***************************************************************************)
LeafSpecKinds == {"DiscreteArray", "BoundedArray", "Array", "other"}
Leaf(kind) == [kind |-> kind, fields |-> <<>>]
DictSpec(fields) == [kind |-> "OrderedDict", fields |-> fields]
\* an environment without observation_spec()/action_spec()
NoSpec == [kind |-> "absent", fields |-> <<>>]

\* _spec_to_space on a leaf: the kind of gym space, "ValueError" when unsupported
LeafSpecToSpace(kind) ==
    CASE kind = "DiscreteArray" -> "Discrete"
      [] kind = "BoundedArray"  -> "Box"
      [] kind = "Array"         -> "Box"
      [] OTHER                  -> "ValueError"

_spec_to_space(spec) ==
    IF spec.kind = "OrderedDict"
      THEN IF \E i \in 1..Len(spec.fields) :
                  LeafSpecToSpace(spec.fields[i]) = "ValueError"
             THEN "ValueError"
             ELSE "Dict"
      ELSE LeafSpecToSpace(spec.kind)

\* the exception DeepMindWrapper(env) raises, "" when it constructs
DeepMindInitError(env) ==
    IF env.obs_spec.kind = "absent" \/ env.act_spec.kind = "absent"
      THEN "AttributeError"
    ELSE IF _spec_to_space(env.obs_spec) = "ValueError"
            \/ _spec_to_space(env.act_spec) = "ValueError"
      THEN "ValueError"
    ELSE ""

(***************************************************************************)
(* wrap_env(env, wrapper).  An environment is described by what the        *)
(* function inspects: whether it is an instance of gym.core.Env or         *)
(* gym.core.Wrapper, and the names of the direct bases of its class.       *)
(***************************************************************************)
DmBase == "dm_env._environment.Environment"
VecTaskBase == "rlgpu.tasks.base.vec_task.VecTask"
BaseNames == {DmBase, VecTaskBase, "object"}

SelSpecs == {NoSpec, Leaf("DiscreteArray"), Leaf("BoundedArray"), Leaf("other"),
             DictSpec(<<"Array", "BoundedArray">>), DictSpec(<<"Array", "other">>)}
SelEnvs == [isGym : BOOLEAN, bases : SUBSET BaseNames,
            obs_spec : SelSpecs, act_spec : {NoSpec, Leaf("BoundedArray")}]
SelWrappers == {"auto", "gym", "dm", "isaacgym-preview2", "isaacgym-preview3",
                "pettingzoo", "Gym"}

NotCalled == [called |-> FALSE, selected |-> "none", adapter |-> "none", err |-> ""]

\* the constructor of the selected class on env
Construct(class, env) ==
    IF class = "DeepMindWrapper" /\ DeepMindInitError(env) # ""
      THEN [called |-> TRUE, selected |-> class, adapter |-> "none",
            err |-> DeepMindInitError(env)]
      ELSE [called |-> TRUE, selected |-> class, adapter |-> class, err |-> ""]

\* the branch `if wrapper == "auto":`
AutoClassNoDefault(env) ==
    IF env.isGym THEN "GymWrapper"
    ELSE IF DmBase \in env.bases THEN "DeepMindWrapper"
    ELSE IF VecTaskBase \in env.bases THEN "IsaacGymPreview2Wrapper"
    ELSE "none"
AutoClass(env) ==
    IF env.isGym THEN "GymWrapper"
    ELSE IF DmBase \in env.bases THEN "DeepMindWrapper"
    ELSE IF VecTaskBase \in env.bases THEN "IsaacGymPreview2Wrapper"
    ELSE "IsaacGymPreview3Wrapper"

\* the branches `elif wrapper == ...:`, "none" for the final else
ExplicitClassByEnv(env, wrapper) ==
    IF wrapper \in {"gym", "dm", "isaacgym-preview2", "isaacgym-preview3"}
      THEN AutoClass(env) ELSE "none"
ExplicitClass(env, wrapper) ==
    CASE wrapper = "gym"               -> "GymWrapper"
      [] wrapper = "dm"                -> "DeepMindWrapper"
      [] wrapper = "isaacgym-preview2" -> "IsaacGymPreview2Wrapper"
      [] wrapper = "isaacgym-preview3" -> "IsaacGymPreview3Wrapper"
      [] OTHER                         -> "none"

wrap_env(env, wrapper) ==
    LET class == IF wrapper = "auto" THEN AutoClass(env)
                                     ELSE ExplicitClass(env, wrapper)
    IN  IF class = "none"
          THEN [called |-> TRUE, selected |-> "none", adapter |-> "none",
                err |-> "ValueError"]
          ELSE Construct(class, env)

SelInit ==
    /\ sel_env \in SelEnvs
    /\ sel_wrapper \in SelWrappers
    /\ sel_result = NotCalled

WrapEnv ==
    /\ ~sel_result.called
    /\ sel_result' = wrap_env(sel_env, sel_wrapper)
    /\ UNCHANGED <<sel_env, sel_wrapper>>

SelIdle ==
    /\ sel_env = [isGym |-> TRUE, bases |-> {"object"},
                  obs_spec |-> NoSpec, act_spec |-> NoSpec]
    /\ sel_wrapper = "auto"
    /\ sel_result = NotCalled

(***************************************************************************)
(* Codec: observations and spaces.                                         *)
(*   value  [vk, dtype, shape, data, order, items]                         *)
(*     vk = "int"      a Python int (data = <<n>>)                         *)
(*     vk = "npscalar" a numpy integer scalar, as Discrete.sample() gives  *)
(*     vk = "ndarray"  a numpy array                                       *)
(*     vk = "dict"     a mapping: order is the insertion order of its      *)
(*                     keys, items[k] the (leaf) value under key k         *)
(*   space  [sk, n, dtype, shape, order, fields]                           *)
(*     sk = "Discrete" | "Box" | "Dict" | "MultiDiscrete"; for the         *)
(*     DeepMind wrapper the same records stand for the specs DiscreteArray,*)
(*     Array/BoundedArray, OrderedDict and an unsupported spec.            *)
(* Dictionaries are one level deep: their entries are leaves.              *)
(***************************************************************************)
Keys == {"a", "b"}
\* the field names in alphabetic order: what sorted() yields on them
KeyOrd == <<"a", "b">>
Range(q) == {q[i] : i \in 1..Len(q)}

\* float32 holds integers exactly up to 2^24; above, up to 2^25, it holds the
\* even ones, and an odd one rounds to the neighbour with an even mantissa
F32Exact == 2^24
F32(x) ==
    IF x <= F32Exact \/ x % 2 = 0 THEN x
    ELSE IF (x + 1) % 4 = 0 THEN x + 1 ELSE x - 1
BigOdd == F32Exact + 1

\* x.astype(dtype) / torch.tensor(x, dtype=dtype) on one element
Cast(dtype, x) == IF dtype = "float32" THEN F32(x) ELSE x
CastAll(dtype, data) == [i \in 1..Len(data) |-> Cast(dtype, data[i])]

LeafV(vk, dtype, shape, data) ==
    [vk |-> vk, dtype |-> dtype, shape |-> shape, data |-> data]
NoLeafV == LeafV("none", "", <<>>, <<>>)
PyInt(n) == LeafV("int", "int", <<>>, <<n>>)
NpScalar(n) == LeafV("npscalar", "int64", <<>>, <<n>>)
NdArray(dtype, shape, data) == LeafV("ndarray", dtype, shape, data)
\* lift a leaf to the record shape shared with dictionaries
Val(leaf) ==
    [vk |-> leaf.vk, dtype |-> leaf.dtype, shape |-> leaf.shape, data |-> leaf.data,
     order |-> <<>>, items |-> [k \in Keys |-> NoLeafV]]
DictV(order, items) ==
    [vk |-> "dict", dtype |-> "", shape |-> <<>>, data |-> <<>>,
     order |-> order, items |-> items]

LeafS(sk, n, dtype, shape) == [sk |-> sk, n |-> n, dtype |-> dtype, shape |-> shape]
NoLeafS == LeafS("none", 0, "", <<>>)
Discrete(n) == LeafS("Discrete", n, "int64", <<>>)
Box(dtype, shape) == LeafS("Box", 0, dtype, shape)
MultiDiscrete(shape) == LeafS("MultiDiscrete", 0, "int64", shape)
Space(leaf) ==
    [sk |-> leaf.sk, n |-> leaf.n, dtype |-> leaf.dtype, shape |-> leaf.shape,
     order |-> <<>>, fields |-> [k \in Keys |-> NoLeafS]]
DictS(order, fields) ==
    [sk |-> "Dict", n |-> 0, dtype |-> "", shape |-> <<>>,
     order |-> order, fields |-> fields]

\* sorted(space.keys())
SortedKeys(order) == SelectSeq(KeyOrd, LAMBDA k : k \in Range(order))

\* the elements of x when x is handed to torch.tensor / np.array
NumElems(v) == IF v.vk = "ndarray" THEN ShapeProd(v.shape) ELSE 1

\* row r of a (k, c) tensor
Row(t, r) == SubSeq(t.data, (r - 1) * t.shape[2] + 1, r * t.shape[2])
RECURSIVE CatRow(_, _)
CatRow(ts, r) == IF ts = <<>> THEN <<>> ELSE Row(Head(ts), r) \o CatRow(Tail(ts), r)
RECURSIVE CatData(_, _, _)
CatData(ts, r, k) == IF r > k THEN <<>> ELSE CatRow(ts, r) \o CatData(ts, r + 1, k)
RECURSIVE SumCols(_)
SumCols(ts) == IF ts = <<>> THEN 0 ELSE Head(ts).shape[2] + SumCols(Tail(ts))

\* torch.cat(ts, dim=-1) / np.concatenate(ts, axis=-1) of (k, c_i) tensors:
\* the first failed operand's error, else the rows side by side; the result
\* is int64 only when every operand is
Cat(ts, k) ==
    IF \E i \in 1..Len(ts) : ~ts[i].ok
      THEN ts[CHOOSE i \in 1..Len(ts) :
                  ~ts[i].ok /\ \A j \in 1..(i - 1) : ts[j].ok]
      ELSE Tensor(IF \A i \in 1..Len(ts) : ts[i].dtype = "int64"
                    THEN "int64" ELSE "float32",
                  <<k, SumCols(ts)>>, CatData(ts, 1, k))

\* torch.tensor(observation, dtype=dtype).view(k, -1); a mapping is no tensor data
TorchTensorView(v, dtype, k) ==
    IF v.vk = "dict" THEN Err("RuntimeError")
    ELSE IF ViewRows(NumElems(v), k) = <<>> THEN Err("RuntimeError")
    ELSE Tensor(dtype, ViewRows(NumElems(v), k), CastAll(dtype, v.data))

\* observation[k] of the Dict branch, as a result record carrying the entry
Entry(obs, key) ==
    IF obs.vk # "dict" THEN [ok |-> FALSE, err |-> "IndexError", v |-> NoLeafV]
    ELSE IF key \notin Range(obs.order)
      THEN [ok |-> FALSE, err |-> "KeyError", v |-> NoLeafV]
    ELSE [ok |-> TRUE, err |-> "", v |-> obs.items[key]]

(***************************************************************************)
(* GymWrapper._observation_to_tensor.  GymLeaf is the chain of branches    *)
(* on a space that is no Dict (the entries of a Dict are such).            *)
(***************************************************************************)
GymLeaf(v, s, k) ==
    IF v.vk = "int" THEN TorchTensorView(v, "int64", k)
    ELSE IF v.vk = "ndarray" THEN TorchTensorView(v, "float32", k)
    ELSE IF s.sk = "Discrete" THEN TorchTensorView(v, "float32", k)
    ELSE IF s.sk = "Box" THEN TorchTensorView(v, "float32", k)
    ELSE Err("ValueError")

GymObservationToTensor(obs, space, k) ==
    IF obs.vk \notin {"int", "ndarray"} /\ space.sk = "Dict"
      THEN LET ks == SortedKeys(space.order)
           IN  Cat([i \in 1..Len(ks) |->
                      IF Entry(obs, ks[i]).ok
                        THEN GymLeaf(Entry(obs, ks[i]).v, space.fields[ks[i]], k)
                        ELSE Err(Entry(obs, ks[i]).err)], k)
      ELSE GymLeaf(obs, space, k)

(***************************************************************************)
(* PettingZooWrapper._observation_to_tensor (numpy).  ndarray.view takes a *)
(* dtype and a type, so .view(self.num_envs, -1) raises TypeError.         *)
(***************************************************************************)
NumpyReshape(v, k) ==
    IF ViewRows(NumElems(v), k) = <<>> THEN Err("ValueError")
    ELSE Tensor("float32", ViewRows(NumElems(v), k), CastAll("float32", v.data))

PzLeaf(v, s, k) ==
    IF v.vk = "int" THEN Err("TypeError")
    ELSE IF v.vk = "ndarray" THEN NumpyReshape(v, k)
    ELSE IF s.sk = "Discrete"
      THEN IF v.vk = "dict" THEN Err("TypeError") ELSE NumpyReshape(v, k)
    ELSE IF s.sk = "Box"
      THEN IF v.vk = "dict" THEN Err("AttributeError") ELSE NumpyReshape(v, k)
    ELSE Err("ValueError")

PzObservationToTensor(obs, space, k) ==
    IF obs.vk \notin {"int", "ndarray"} /\ space.sk = "Dict"
      THEN LET ks == SortedKeys(space.order)
               c  == Cat([i \in 1..Len(ks) |->
                      IF Entry(obs, ks[i]).ok
                        THEN PzLeaf(Entry(obs, ks[i]).v, space.fields[ks[i]], k)
                        ELSE Err(Entry(obs, ks[i]).err)], k)
           IN  IF c.ok THEN Err("TypeError") ELSE c
      ELSE PzLeaf(obs, space, k)

(***************************************************************************)
(* DeepMindWrapper._observation_to_tensor: the branches are on the spec.   *)
(***************************************************************************)
DmLeaf(v, s, k) ==
    IF s.sk = "Discrete" THEN TorchTensorView(v, "float32", k)
    ELSE IF s.sk = "Box" THEN TorchTensorView(v, "float32", k)
    ELSE Err("ValueError")

DmObservationToTensor(obs, spec, k) ==
    IF spec.sk = "Dict"
      THEN LET ks == SortedKeys(spec.order)
           IN  Cat([i \in 1..Len(ks) |->
                      IF Entry(obs, ks[i]).ok
                        THEN DmLeaf(Entry(obs, ks[i]).v, spec.fields[ks[i]], k)
                        ELSE Err(Entry(obs, ks[i]).err)], k)
      ELSE DmLeaf(obs, spec, k)

(***************************************************************************)
(* _tensor_to_action of the three classes.  A decoded action is a record   *)
(* [ok, err, vk, dtype, shape, data]; item() gives a Python int for an     *)
(* integer tensor and a Python float otherwise.                            *)
(***************************************************************************)
DecErr(name) ==
    [ok |-> FALSE, err |-> name, vk |-> "none", dtype |-> "", shape |-> <<>>,
     data |-> <<>>]
Decoded(vk, dtype, shape, data) ==
    [ok |-> TRUE, err |-> "", vk |-> vk, dtype |-> dtype, shape |-> shape,
     data |-> data]

\* actions.item()
Item(t) ==
    IF Len(t.data) # 1 THEN DecErr("NotOneElement")
    ELSE IF t.dtype = "int64" THEN Decoded("int", "int", <<>>, t.data)
    ELSE Decoded("float", "float", <<>>, t.data)

\* np.array(actions, dtype=space.dtype).reshape(space.shape)
ReshapeKeepsDtype(t, space) ==
    IF Len(t.data) # ShapeProd(space.shape) THEN DecErr("ReshapeError")
    ELSE Decoded("ndarray", t.dtype, space.shape, t.data)
ReshapeToSpace(t, space) ==
    IF Len(t.data) # ShapeProd(space.shape) THEN DecErr("ReshapeError")
    ELSE Decoded("ndarray", space.dtype, space.shape, CastAll(space.dtype, t.data))

GymTensorToAction(t, space) ==
    IF space.sk = "Discrete" THEN Item(t)
    ELSE IF space.sk = "Box" THEN ReshapeToSpace(t, space)
    ELSE DecErr("ValueError")

PzTensorToAction(t, space) ==
    IF space.sk = "Discrete" THEN Item(t)
    ELSE IF space.sk = "Box" THEN ReshapeToSpace(t, space)
    ELSE DecErr("ValueError")

\* np.array(actions.item(), dtype=spec.dtype): a zero-dimensional array
DmTensorToAction(t, spec) ==
    IF spec.sk = "Discrete"
      THEN IF Item(t).ok
             THEN Decoded("ndarray", spec.dtype, <<>>, CastAll(spec.dtype, t.data))
             ELSE Item(t)
    ELSE IF spec.sk = "Box" THEN ReshapeToSpace(t, spec)
    ELSE DecErr("ValueError")

Encode(codec, obs, space, k) ==
    CASE codec = "gym" -> GymObservationToTensor(obs, space, k)
      [] codec = "pz"  -> PzObservationToTensor(obs, space, k)
      [] codec = "dm"  -> DmObservationToTensor(obs, space, k)

Decode(codec, t, space) ==
    CASE codec = "gym" -> GymTensorToAction(t, space)
      [] codec = "pz"  -> PzTensorToAction(t, space)
      [] codec = "dm"  -> DmTensorToAction(t, space)

(***************************************************************************)
(* The codec applied to one (observation, space) pair: the inputs are      *)
(* drawn by CodecInit, EncodeValue runs _observation_to_tensor and         *)
(* DecodeTensor runs _tensor_to_action on the tensor it produced.          *)
(***************************************************************************)
Codecs == {"gym", "pz", "dm"}
Elems == {1, 2, BigOdd}
Dtypes == {"float32", "int64"}
\* the arrays of dtype dt: a float32 array holds float32 numbers only
Arrays(shape) ==
    {NdArray(dt, shape, d) : dt \in Dtypes, d \in [1..ShapeProd(shape) -> Elems]}
ValidArray(a) == a.dtype = "float32" => CastAll("float32", a.data) = a.data

CdLeafValues ==
    {PyInt(0), PyInt(1), NpScalar(1)}
      \cup {a \in Arrays(<<1>>) \cup Arrays(<<2>>) : ValidArray(a)}
CdEntryValues ==
    {PyInt(0), NdArray("float32", <<1>>, <<1>>), NdArray("float32", <<1>>, <<2>>),
     NdArray("float32", <<2>>, <<1, 2>>)}
CdOrders == {<<"a", "b">>, <<"b", "a">>}
CdValues ==
    {Val(l) : l \in CdLeafValues}
      \cup {DictV(o, it) : o \in CdOrders, it \in [Keys -> CdEntryValues]}

CdLeafSpaces ==
    {Discrete(2), Box("float32", <<1>>), Box("float32", <<2>>),
     Box("int64", <<2>>), MultiDiscrete(<<2>>)}
CdEntrySpaces ==
    {Discrete(2), Box("float32", <<1>>), Box("float32", <<2>>), MultiDiscrete(<<2>>)}
CdSpaces ==
    {Space(l) : l \in CdLeafSpaces}
      \cup {DictS(o, f) : o \in CdOrders, f \in [Keys -> CdEntrySpaces]}

NotRun == Err("not run")
NotDecoded == DecErr("not run")

CodecInit ==
    /\ cd_codec \in Codecs
    /\ cd_num_envs \in 1..MaxNumEnvs
    /\ cd_space \in CdSpaces
    /\ cd_value \in CdValues
    /\ cd_encoded = NotRun
    /\ cd_decoded = NotDecoded

EncodeValue ==
    /\ cd_encoded = NotRun
    /\ cd_encoded' = Encode(cd_codec, cd_value, cd_space, cd_num_envs)
    /\ UNCHANGED <<cd_codec, cd_num_envs, cd_space, cd_value, cd_decoded>>

DecodeTensor ==
    /\ cd_encoded.ok
    /\ cd_decoded = NotDecoded
    /\ cd_decoded' = Decode(cd_codec, cd_encoded, cd_space)
    /\ UNCHANGED <<cd_codec, cd_num_envs, cd_space, cd_value, cd_encoded>>

CodecIdle ==
    /\ cd_codec = "gym"
    /\ cd_num_envs = 1
    /\ cd_space = Space(Discrete(2))
    /\ cd_value = Val(PyInt(0))
    /\ cd_encoded = NotRun
    /\ cd_decoded = NotDecoded

(***************************************************************************)
(* GymWrapper over a backend.  The backend is described by its optional    *)
(* num_envs attribute and its observation and action space; a backend with *)
(* num_envs = k hands out arrays with a leading axis of length k.          *)
(***************************************************************************)
Bits == {0, 1}
GymEnvs ==
    {[has_num_envs |-> h, num_envs |-> k, obs_space |-> Space(o), act_space |-> Space(a)] :
        h \in BOOLEAN, k \in 1..MaxNumEnvs,
        o \in {Box("float32", <<1>>), Box("float32", <<3>>)},
        a \in {Discrete(2), Box("float32", <<1>>)}}

\* Wrapper.num_envs
num_envs(env) == IF env.has_num_envs THEN env.num_envs ELSE 1

\* the shape of what the backend returns for a quantity of per-environment shape
BackendShape(env, shape) ==
    IF env.has_num_envs THEN <<env.num_envs>> \o shape ELSE shape
\* one value per environment: environment e holds v[e], v[e] + 2, ...
BackendArrays(env, dtype, shape) ==
    {NdArray(dtype, BackendShape(env, shape),
             [i \in 1..ShapeProd(BackendShape(env, shape)) |->
                 v[((i - 1) \div ShapeProd(shape)) + 1] + 2 * ((i - 1) % ShapeProd(shape))]) :
        v \in [1..num_envs(env) -> Bits]}
\* the same value for every environment
BackendFlags(env, dtype) ==
    {NdArray(dtype, BackendShape(env, <<>>), [i \in 1..num_envs(env) |-> b]) : b \in Bits}

NoTensor == Err("none")
GymNoCall ==
    [op |-> "none", ok |-> TRUE, err |-> "", obs |-> NoTensor, rew |-> NoTensor,
     done |-> NoTensor, actions_shape |-> <<>>]

GymInit ==
    /\ gym_env \in {e \in GymEnvs : ~e.has_num_envs => e.num_envs = 1}
    /\ gym_last = GymNoCall

\* GymWrapper.reset
GymReset ==
    /\ \E observation \in BackendArrays(gym_env, "float32", gym_env.obs_space.shape) :
          LET t == GymObservationToTensor(Val(observation), gym_env.obs_space,
                                          num_envs(gym_env))
          IN  gym_last' = [op |-> "reset", ok |-> t.ok, err |-> t.err, obs |-> t,
                           rew |-> NoTensor, done |-> NoTensor, actions_shape |-> <<>>]
    /\ UNCHANGED gym_env

\* the action tensors a trainer hands to step: one row per environment
TrainerActions(env) ==
    {Tensor(IF env.act_space.sk = "Discrete" THEN "int64" ELSE "float32",
            <<num_envs(env), 1>>, d) : d \in [1..num_envs(env) -> Bits]}

\* GymWrapper.step: _tensor_to_action runs before the backend is called
GymStep ==
    /\ \E actions \in TrainerActions(gym_env) :
          LET sent == GymTensorToAction(actions, gym_env.act_space)
          IN  IF ~sent.ok
                THEN gym_last' = [op |-> "step", ok |-> FALSE, err |-> sent.err,
                                  obs |-> NoTensor, rew |-> NoTensor, done |-> NoTensor,
                                  actions_shape |-> actions.shape]
                ELSE \E observation \in BackendArrays(gym_env, "float32",
                                                      gym_env.obs_space.shape),
                        reward \in BackendFlags(gym_env, "float32"),
                        done \in BackendFlags(gym_env, "bool") :
                       LET o == GymObservationToTensor(Val(observation),
                                    gym_env.obs_space, num_envs(gym_env))
                           r == TorchTensorView(reward, "float32", num_envs(gym_env))
                           d == TorchTensorView(done, "bool", num_envs(gym_env))
                       IN  gym_last' =
                             [op |-> "step",
                              ok |-> o.ok /\ r.ok /\ d.ok,
                              err |-> IF ~o.ok THEN o.err
                                      ELSE IF ~r.ok THEN r.err ELSE d.err,
                              obs |-> o, rew |-> r, done |-> d,
                              actions_shape |-> actions.shape]
    /\ UNCHANGED gym_env

\* close() on a torch wrapper: neither Wrapper nor GymWrapper defines it (nor a
\* __getattr__ to forward it), so the attribute lookup fails
GymClose ==
    /\ gym_last' = [GymNoCall EXCEPT !.op = "close", !.ok = FALSE,
                                     !.err = "AttributeError"]
    /\ UNCHANGED gym_env

GymIdle ==
    /\ gym_env = [has_num_envs |-> FALSE, num_envs |-> 1,
                  obs_space |-> Space(Box("float32", <<1>>)),
                  act_space |-> Space(Discrete(2))]
    /\ gym_last = GymNoCall

(***************************************************************************)
(* PettingZooWrapper over a parallel backend.  The backend has a fixed     *)
(* sequence possible_agents, one Box observation space per agent           *)
(* (obs_shape), and the sequence agents of the currently active ones: its  *)
(* reset() makes every possible agent active, its step() answers for the   *)
(* agents active when called and then drops the ones that terminated.      *)
(***************************************************************************)
AgentLists == {<<"agent_0", "agent_1">>, <<"agent_0", "agent_1", "agent_2">>}
ObsShapes == {<<1>>, <<5>>}
PzEnvs ==
    UNION {{[possible_agents |-> pa, obs_shape |-> sh, agents |-> <<>>,
             started |-> FALSE, reset_returns_info |-> ri,
             info_has_shared_states |-> hs, close_calls |-> 0] :
              sh \in [Range(pa) -> ObsShapes], ri \in BOOLEAN, hs \in BOOLEAN} :
           pa \in AgentLists}

\* self.num_envs of the multi-agent base class: a PettingZoo backend is not batched
PzNumEnvs == 1

NoWrapper ==
    [constructed |-> FALSE, err |-> "", possible_agents |-> <<>>, shared_shape |-> <<>>,
     close_calls |-> 0]

\* next(iter(observation_spaces.values())): the first agent's space
FirstSpaceShape(env) == env.obs_shape[env.possible_agents[1]]

\* _compute_shared_observation_space: the agent count in front of that shape
_compute_shared_observation_space(env) ==
    <<Len(env.possible_agents)>> \o FirstSpaceShape(env)

\* an info mapping: key -> entry; an entry records who wrote it (the backend
\* or the wrapper) and a token for its content
NoInfos == [k \in {} |-> [src |-> "backend", v |-> 0]]

\* infos as the backend returns it: one entry for each agent it answers for,
\* and, in a backend that reports a joint state of its own, one under the key
\* "shared_states"
PzInfos(env, keys) ==
    [k \in keys \cup (IF env.info_has_shared_states THEN {"shared_states"} ELSE {}) |->
        [src |-> "backend", v |-> IF k = "shared_states" THEN 2 ELSE 1]]

\* infos = {uid: {} for uid in self.possible_agents}
PzDefaultInfos(w) == [k \in Range(w.possible_agents) |-> [src |-> "wrapper", v |-> 0]]

\* infos["shared_states"] = {uid: shared_observations for uid in self.possible_agents}
SetSharedStates(infos) ==
    [k \in DOMAIN infos \cup {"shared_states"} |->
        IF k = "shared_states" THEN [src |-> "wrapper", v |-> 0] ELSE infos[k]]

\* the agents property: the backend's current agents, read at every access
AgentsAtConstruction(env) == env.possible_agents
agents(env) == env.agents

\* {uid: np.array(value, dtype=dtype).reshape(self.num_envs, -1)
\*  for uid, value in values.items()}
ScalarsToArrays(values, dtype) ==
    [uid \in DOMAIN values |->
        IF ViewRows(1, PzNumEnvs) = <<>> THEN Err("ValueError")
        ELSE Tensor(dtype, ViewRows(1, PzNumEnvs), <<values[uid]>>)]

\* what the backend's step() returns beside the observations, for the agents it
\* answers for: a reward each, and the terminated and truncated flags
PzRewards(keys) == [u \in keys |-> 1]
PzTerminated(keys, terminated) == [u \in keys |-> IF u \in terminated THEN 1 ELSE 0]
PzTruncated(keys) == [u \in keys |-> 0]

PzNoCall ==
    [op |-> "none", ok |-> TRUE, err |-> "", keys |-> {}, obs |-> [u \in {} |-> NoTensor],
     shared_keys |-> {}, shared |-> NoTensor, info_keys |-> {}, terminated |-> {},
     upstream |-> NoInfos, info |-> NoInfos, agents |-> <<>>,
     shared_states |-> [u \in {} |-> NoTensor],
     rewards |-> [u \in {} |-> NoTensor], terminations |-> [u \in {} |-> NoTensor],
     truncations |-> [u \in {} |-> NoTensor]]
PzFailed(op, err, upstream) ==
    [op |-> op, ok |-> FALSE, err |-> err, keys |-> {}, obs |-> [u \in {} |-> NoTensor],
     shared_keys |-> {}, shared |-> NoTensor, info_keys |-> {}, terminated |-> {},
     upstream |-> upstream, info |-> NoInfos, agents |-> <<>>,
     shared_states |-> [u \in {} |-> NoTensor],
     rewards |-> [u \in {} |-> NoTensor], terminations |-> [u \in {} |-> NoTensor],
     truncations |-> [u \in {} |-> NoTensor]]

PzInit ==
    /\ pz_env \in PzEnvs
    /\ pz_wrapper = NoWrapper
    /\ pz_last = PzNoCall

\* PettingZooWrapper.__init__
PzConstruct ==
    /\ ~pz_wrapper.constructed
    /\ pz_wrapper' = [constructed |-> TRUE, err |-> "",
                      possible_agents |-> pz_env.possible_agents,
                      shared_shape |-> _compute_shared_observation_space(pz_env),
                      close_calls |-> 0]
    /\ UNCHANGED <<pz_env, pz_last>>

\* the observations a backend hands out for the agents in keys: for each agent a
\* float32 array of the shape of its observation space: v, v + 2, v + 4, ...
PzObservations(env, keys) ==
    {[u \in keys |-> NdArray("float32", env.obs_shape[u],
                             [i \in 1..ShapeProd(env.obs_shape[u]) |-> v[u] + 2 * (i - 1)])] :
        v \in [keys -> {1, 2}]}

RECURSIVE StackDataLastFirst(_, _)
StackDataLastFirst(observations, uids) ==
    IF uids = <<>> THEN <<>>
    ELSE StackDataLastFirst(observations, Tail(uids)) \o observations[Head(uids)].data

RECURSIVE StackData(_, _)
StackData(observations, uids) ==
    IF uids = <<>> THEN <<>>
    ELSE observations[Head(uids)].data \o StackData(observations, Tail(uids))

\* np.stack([observations[uid] for uid in self.possible_agents], axis=0) and its
\* conversion by _observation_to_tensor with the shared observation space
SharedObservations(w, observations, keys) ==
    IF \E u \in Range(w.possible_agents) : u \notin keys THEN Err("KeyError")
    ELSE IF \E u \in keys : observations[u].shape
                               # observations[w.possible_agents[1]].shape
      THEN Err("ValueError")
    ELSE PzObservationToTensor(
            Val(NdArray("float32",
                        <<Len(w.possible_agents)>>
                           \o observations[w.possible_agents[1]].shape,
                        StackData(observations, w.possible_agents))),
            Space(Box("float32", w.shared_shape)), PzNumEnvs)

\* the rest of step()/reset() once the backend has answered
PzResult(op, w, env, observations, keys, upstream, infos, terminated) ==
    LET shared == SharedObservations(w, observations, keys)
        obs == [u \in DOMAIN observations |->
                  PzObservationToTensor(Val(observations[u]),
                      Space(Box("float32", env.obs_shape[u])), PzNumEnvs)]
        stepped == op = "step"
    IN  IF ~shared.ok THEN PzFailed(op, shared.err, upstream)
        ELSE IF \E u \in keys : ~obs[u].ok
          THEN PzFailed(op, obs[CHOOSE u \in keys : ~obs[u].ok].err, upstream)
        ELSE [op |-> op, ok |-> TRUE, err |-> "", keys |-> keys, obs |-> obs,
              shared_keys |-> Range(w.possible_agents), shared |-> shared,
              info_keys |-> DOMAIN SetSharedStates(infos),
              terminated |-> terminated,
              upstream |-> upstream, info |-> SetSharedStates(infos),
              agents |-> <<>>,
              shared_states |-> [uid \in Range(w.possible_agents) |-> shared],
              rewards |-> ScalarsToArrays(
                              PzRewards(IF stepped THEN keys ELSE {}), "float32"),
              terminations |-> ScalarsToArrays(
                              PzTerminated(IF stepped THEN keys ELSE {}, terminated),
                              "int8"),
              truncations |-> ScalarsToArrays(
                              PzTruncated(IF stepped THEN keys ELSE {}), "int8")]

\* PettingZooWrapper.reset
PzReset ==
    /\ pz_wrapper.constructed
    /\ pz_env' = [pz_env EXCEPT !.agents = pz_env.possible_agents, !.started = TRUE]
    /\ \E observations \in PzObservations(pz_env, Range(pz_env.possible_agents)) :
          \* infos: the backend's, or {uid: {} for uid in self.possible_agents}
          \* when the backend's reset returns the observations alone
          LET upstream == IF pz_env.reset_returns_info
                            THEN PzInfos(pz_env, Range(pz_env.possible_agents))
                            ELSE NoInfos
              infos == IF pz_env.reset_returns_info
                         THEN upstream ELSE PzDefaultInfos(pz_wrapper)
          IN  pz_last' = [PzResult("reset", pz_wrapper, pz_env, observations,
                                   Range(pz_env.possible_agents), upstream, infos, {})
                            EXCEPT !.agents = agents(pz_env')]
    /\ UNCHANGED pz_wrapper

\* PettingZooWrapper.step: the actions are decoded, the backend steps, then the
\* shared observation is built from what it returned
PzStep ==
    /\ pz_wrapper.constructed
    /\ pz_env.started
    /\ \E actions \in {[u \in Range(pz_env.agents) |-> Tensor("int64", <<1, 1>>, <<b>>)] :
                          b \in Bits},
          terminated \in SUBSET Range(pz_env.agents) :
          /\ \A u \in Range(pz_env.agents) :
                PzTensorToAction(actions[u], Space(Discrete(2))).ok
          /\ pz_env' = [pz_env EXCEPT !.agents =
                           SelectSeq(pz_env.agents, LAMBDA u : u \notin terminated)]
          /\ \E observations \in PzObservations(pz_env, Range(pz_env.agents)) :
                pz_last' = [PzResult("step", pz_wrapper, pz_env, observations,
                                     Range(pz_env.agents),
                                     PzInfos(pz_env, Range(pz_env.agents)),
                                     PzInfos(pz_env, Range(pz_env.agents)),
                                     terminated)
                              EXCEPT !.agents = agents(pz_env')]
    /\ UNCHANGED pz_wrapper

\* PettingZooWrapper.close: self._env.close(), whatever was called before
PzClose ==
    /\ pz_wrapper.constructed
    /\ pz_wrapper.close_calls < MaxCloses
    /\ pz_wrapper' = [pz_wrapper EXCEPT !.close_calls = @ + 1]
    /\ pz_env' = [pz_env EXCEPT !.close_calls = @ + 1]
    /\ pz_last' = [PzNoCall EXCEPT !.op = "close"]

PzIdle ==
    /\ pz_env = [possible_agents |-> <<"agent_0", "agent_1">>,
                 obs_shape |-> [u \in {"agent_0", "agent_1"} |-> <<1>>],
                 agents |-> <<>>, started |-> FALSE, reset_returns_info |-> FALSE,
                 info_has_shared_states |-> FALSE, close_calls |-> 0]
    /\ pz_wrapper = NoWrapper
    /\ pz_last = PzNoCall

(***************************************************************************)
(* Specifications: one per wrapper family, the other families idle.        *)
(***************************************************************************)
InitIsaac == IsaacInit /\ SelIdle /\ CodecIdle /\ GymIdle /\ PzIdle
NextIsaac ==
    \/ IsaacReset /\ UNCHANGED <<selVars, cdVars, gymVars, pzVars>>
    \/ IsaacStep /\ UNCHANGED <<selVars, cdVars, gymVars, pzVars>>
SpecIsaac == InitIsaac /\ [][NextIsaac]_vars

InitSel == IsaacIdle /\ SelInit /\ CodecIdle /\ GymIdle /\ PzIdle
NextSel == WrapEnv /\ UNCHANGED <<igVars, cdVars, gymVars, pzVars>>
SpecSel == InitSel /\ [][NextSel]_vars

InitCodec == IsaacIdle /\ SelIdle /\ CodecInit /\ GymIdle /\ PzIdle
NextCodec ==
    \/ EncodeValue /\ UNCHANGED <<igVars, selVars, gymVars, pzVars>>
    \/ DecodeTensor /\ UNCHANGED <<igVars, selVars, gymVars, pzVars>>
SpecCodec == InitCodec /\ [][NextCodec]_vars

InitGym == IsaacIdle /\ SelIdle /\ CodecIdle /\ GymInit /\ PzIdle
NextGym ==
    \/ GymReset /\ UNCHANGED <<igVars, selVars, cdVars, pzVars>>
    \/ GymStep /\ UNCHANGED <<igVars, selVars, cdVars, pzVars>>
    \/ GymClose /\ UNCHANGED <<igVars, selVars, cdVars, pzVars>>
SpecGym == InitGym /\ [][NextGym]_vars

InitPz == IsaacIdle /\ SelIdle /\ CodecIdle /\ GymIdle /\ PzInit
NextPz ==
    \/ PzConstruct /\ UNCHANGED <<igVars, selVars, cdVars, gymVars>>
    \/ PzReset /\ UNCHANGED <<igVars, selVars, cdVars, gymVars>>
    \/ PzStep /\ UNCHANGED <<igVars, selVars, cdVars, gymVars>>
    \/ PzClose /\ UNCHANGED <<igVars, selVars, cdVars, gymVars>>
SpecPz == InitPz /\ [][NextPz]_vars

(***************************************************************************)
(* Properties of the Isaac Gym wrappers (SpecIsaac).                       *)
(***************************************************************************)
Resets == {i \in 1..Len(ig_history) : ig_history[i].op = "reset"}
FirstReset == CHOOSE i \in Resets : \A j \in Resets : i <= j
\* the call before call i that last wrote the buffer: the latest step() after
\* the first reset(), else the first reset() itself
LastWrite(i) ==
    CHOOSE j \in 1..(i - 1) :
      /\ j = FirstReset \/ (j > FirstReset /\ ig_history[j].op = "step")
      /\ \A m \in (j + 1)..(i - 1) : ig_history[m].op # "step"

\* C1: over any sequence of reset() and step() calls the backend's native reset
\* is called once, by the first reset() and by no other call; two consecutive
\* reset() calls return the same observation and the second does not call the
\* backend.
OneShotReset ==
    /\ env_resets = IF Resets = {} THEN 0 ELSE 1
    /\ \A i \in 1..Len(ig_history) :
          ig_history[i].native <=> (Resets # {} /\ i = FirstReset)
    /\ \A i \in 1..(Len(ig_history) - 1) :
          ig_history[i].op = "reset" /\ ig_history[i + 1].op = "reset"
            => /\ ig_history[i + 1].obs = ig_history[i].obs
               /\ ~ig_history[i + 1].native

OneShotResetWitness ==
    /\ env_resets = 1
    /\ \E i \in 2..(Len(ig_history) - 1) :
          /\ ig_history[i - 1].op = "step"
          /\ ig_history[i].op = "reset"
          /\ ig_history[i + 1].op = "reset"

\* C5 as claimed: step() leaves the reset buffer alone, so every reset() returns
\* the value the first reset() obtained from the backend's native reset.
ResetReturnsFirstResetValue ==
    \A i \in Resets : ig_history[i].obs = ig_history[FirstReset].obs

\* C5 as amended: the buffer is written by the first reset() and by every
\* step(); a reset() after the first calls no backend routine and returns the
\* buffer as last written: the observation of the latest step() made since the
\* first reset(), or the first reset()'s value when there was none.
ResetReturnsLastWrittenBuffer ==
    \A i \in Resets :
       i # FirstReset
         => /\ ~ig_history[i].native
            /\ ig_history[i].obs = ig_history[LastWrite(i)].obs

ResetAfterStepWitness ==
    \E i \in Resets :
       /\ i # FirstReset
       /\ ig_history[i - 1].op = "step"
       /\ LastWrite(i) = i - 1
       /\ ig_history[i].obs # ig_history[FirstReset].obs

(***************************************************************************)
(* Properties of wrap_env (SpecSel).                                       *)
(***************************************************************************)
\* the wrapper classes whose test in the "auto" branch the environment passes
Matches(env) ==
    {c \in {"GymWrapper", "DeepMindWrapper", "IsaacGymPreview2Wrapper"} :
        \/ c = "GymWrapper" /\ env.isGym
        \/ c = "DeepMindWrapper" /\ DmBase \in env.bases
        \/ c = "IsaacGymPreview2Wrapper" /\ VecTaskBase \in env.bases}
Priority(c) ==
    CASE c = "GymWrapper" -> 1
      [] c = "DeepMindWrapper" -> 2
      [] c = "IsaacGymPreview2Wrapper" -> 3
      [] OTHER -> 4
\* the adapter is of the selected class, unless DeepMindWrapper's constructor raised
Constructed(r) ==
    \/ r.adapter = r.selected /\ r.err = ""
    \/ /\ r.selected = "DeepMindWrapper"
       /\ r.adapter = "none"
       /\ r.err \in {"AttributeError", "ValueError"}

\* C4 as claimed: automatic selection returns an adapter only when exactly one
\* variant matches, and fails with UnknownEnvironmentKindError when none or
\* several match.
AutoNeedsExactlyOneMatch ==
    sel_result.called /\ sel_wrapper = "auto"
      => IF Cardinality(Matches(sel_env)) = 1
           THEN sel_result.selected \in Matches(sel_env)
           ELSE /\ sel_result.adapter = "none"
                /\ sel_result.err = "UnknownEnvironmentKindError"

\* C4 as amended: automatic selection never fails for want of a match or for
\* several: it selects the first matching variant in the order gym, dm,
\* isaacgym-preview2, and isaacgym-preview3 when none matches.
AutoFirstMatchOrDefault ==
    sel_result.called /\ sel_wrapper = "auto"
      => /\ Matches(sel_env) = {}
              => sel_result.adapter = "IsaacGymPreview3Wrapper"
         /\ Matches(sel_env) # {}
              => /\ sel_result.selected \in Matches(sel_env)
                 /\ \A c \in Matches(sel_env) :
                       Priority(sel_result.selected) <= Priority(c)
         /\ Constructed(sel_result)

AutoDefaultWitness ==
    /\ sel_result.called
    /\ sel_wrapper = "auto"
    /\ Matches(sel_env) = {}
    /\ sel_result.adapter = "IsaacGymPreview3Wrapper"

KindClass ==
    ("gym" :> "GymWrapper") @@ ("dm" :> "DeepMindWrapper")
      @@ ("isaacgym-preview2" :> "IsaacGymPreview2Wrapper")
      @@ ("isaacgym-preview3" :> "IsaacGymPreview3Wrapper")

Supported == {"Discrete", "Box", "Dict"}
Encoded == cd_encoded # NotRun
WasDecoded == cd_decoded # NotDecoded

\* v is a value of the leaf space s
LeafContains(s, v) ==
    \/ s.sk = "Discrete" /\ v.vk \in {"int", "npscalar"} /\ v.data[1] \in 0..(s.n - 1)
    \/ s.sk = "Box" /\ v.vk = "ndarray" /\ v.shape = s.shape /\ v.dtype = s.dtype
Contains(space, value) ==
    IF space.sk = "Dict"
      THEN /\ value.vk = "dict"
           /\ Range(value.order) = Range(space.order)
           /\ \A key \in Range(space.order) :
                 LeafContains(space.fields[key], value.items[key])
      ELSE LeafContains(space, value)

\* the encoding of the entry under key, taken on its own
EntryEncoded(key) ==
    Encode(cd_codec, Val(cd_value.items[key]), Space(cd_space.fields[key]), cd_num_envs)

\* C7: encoding a value of a Dict space yields, whatever the insertion order of
\* the fields in the space and in the value, the encoded fields side by side in
\* alphabetic order of field name: for fields "b" and "a", a's features first.
DictFieldsAlphabetic ==
    /\ Encoded
    /\ cd_space.sk = "Dict"
    /\ Contains(cd_space, cd_value)
    /\ EntryEncoded("a").ok
    /\ EntryEncoded("b").ok
    => /\ cd_encoded.ok
       /\ cd_encoded.shape =
             <<cd_num_envs, EntryEncoded("a").shape[2] + EntryEncoded("b").shape[2]>>
       /\ \A r \in 1..cd_num_envs :
             Row(cd_encoded, r) = Row(EntryEncoded("a"), r) \o Row(EntryEncoded("b"), r)

\* C8: for a space that is not Discrete, Box or Dict the encoder raises the
\* unsupported-space error (ValueError) for every value, a plain integer or an
\* array included, and returns no tensor.
UnsupportedSpaceRaises ==
    Encoded /\ cd_codec \in {"gym", "pz"} /\ cd_space.sk \notin Supported
      => ~cd_encoded.ok /\ cd_encoded.err = "ValueError"

\* the decoded action equals the original value: same shape, same elements up to
\* the float32 cast of the encoding
SameValue(d, v) ==
    /\ d.shape = v.shape
    /\ d.data = CastAll("float32", v.data)
    /\ v.vk = "ndarray" => d.vk = "ndarray" /\ d.dtype = v.dtype

EncodeAccepts ==
    /\ NumElems(cd_value) % cd_num_envs = 0
    /\ ~(cd_codec = "pz" /\ cd_value.vk = "int")

GymEndToEndShapes ==
    gym_env.obs_space.sk = "Box" /\ gym_env.act_space.sk = "Discrete"
      => /\ gym_last.op = "reset"
              => /\ gym_last.ok
                 /\ gym_last.obs.shape
                      = <<num_envs(gym_env), ShapeProd(gym_env.obs_space.shape)>>
         /\ gym_last.op = "step" /\ gym_last.actions_shape = <<num_envs(gym_env), 1>>
              => /\ gym_last.ok
                 /\ gym_last.rew.shape = <<num_envs(gym_env), 1>>
                 /\ gym_last.done.shape = <<num_envs(gym_env), 1>>

(***************************************************************************)
(* Properties of PettingZooWrapper (SpecPz).                               *)
(***************************************************************************)
\* every agent of the backend has the observation space of the first one
Homogeneous(env) ==
    \A u \in Range(env.possible_agents) : env.obs_shape[u] = FirstSpaceShape(env)

\* C2: after any reset() or step() info["shared_states"] has a key for every
\* possible agent, also when the backend answered for a strict subset of them
\* (the active ones), and the call does not fail then.
SharedStatesForEveryPossibleAgent ==
    Homogeneous(pz_env) /\ pz_last.op \in {"reset", "step"}
      => /\ pz_last.ok
         /\ "shared_states" \in pz_last.info_keys
         /\ pz_last.shared_keys = Range(pz_wrapper.possible_agents)

\* C3: constructing the wrapper over a backend in which two agents' observation
\* spaces differ in shape fails with HeterogeneousAgentSpaceError, so no wrapper
\* exists on which reset() or step() could be called.
HeterogeneousConstructionFails ==
    ~Homogeneous(pz_env)
      => /\ ~pz_wrapper.constructed
         /\ pz_wrapper.err \in {"", "HeterogeneousAgentSpaceError"}
         /\ pz_last.op = "none"

\* C11: every key/value pair of the info mapping the backend's step() (and its
\* reset(), where it returns one) hands out is present, with the same value, in
\* the info the wrapper returns from that call: the wrapper only adds entries and
\* neither drops nor overwrites an upstream one.
UpstreamInfoKept ==
    pz_last.op \in {"reset", "step"} /\ pz_last.ok
      => \A k \in DOMAIN pz_last.upstream :
            /\ k \in DOMAIN pz_last.info
            /\ pz_last.info[k] = pz_last.upstream[k]

\* C12: close() is idempotent: after any sequence of reset() and step() calls a
\* second close() on the wrapper does not fail and does not call into the
\* backend again, so the backend's close() has run at most once.
CloseIdempotent ==
    pz_wrapper.close_calls >= 2
      => /\ pz_last.ok
         /\ pz_env.close_calls <= 1

\* C13: possible_agents of the wrapper is the backend's sequence taken at
\* construction, same members in the same order after any reset() and step();
\* agents, read after a call, is the backend's current sequence of active
\* agents, which may be shorter; and the observation, reward, terminated and
\* truncated mappings a step() returns are keyed by exactly the identifiers the
\* backend answered for.
AgentsAndKeys ==
    /\ pz_wrapper.constructed => pz_wrapper.possible_agents = pz_env.possible_agents
    /\ pz_last.op \in {"reset", "step"} => pz_last.agents = pz_env.agents
    /\ pz_last.op = "step" /\ pz_last.ok
         => /\ DOMAIN pz_last.obs = pz_last.keys
            /\ DOMAIN pz_last.rewards = pz_last.keys
            /\ DOMAIN pz_last.terminations = pz_last.keys
            /\ DOMAIN pz_last.truncations = pz_last.keys
            /\ \A u \in pz_last.keys :
                  /\ pz_last.rewards[u].shape = <<PzNumEnvs, 1>>
                  /\ pz_last.terminations[u].data = <<IF u \in pz_last.terminated
                                                        THEN 1 ELSE 0>>

\* a step() has returned and left fewer active agents than possible ones
AgentsShrunkWitness ==
    /\ pz_last.op = "step" /\ pz_last.ok
    /\ Len(pz_last.agents) < Len(pz_wrapper.possible_agents)
    /\ pz_last.agents = pz_env.agents
    /\ pz_last.keys = Range(pz_wrapper.possible_agents)

====
